---- MODULE Spec2Model ----
(***************************************************************************)
(* The Coal Log Book Digitizer: the App component of src/vite.config.ts    *)
(* (lines 45-505) as a state machine.  The variables are the component's   *)
(* React state and refs, the browser resources it drives (camera streams,  *)
(* file reads, HTTP requests in flight) and the downloads it has produced. *)
(* One action is one turn of the browser's event loop: a handler up to its *)
(* next await, or the continuation of a handler after an await settled,    *)
(* followed by React's re-render.  An action's guard is the render         *)
(* condition of the control that triggers it.                              *)
(***************************************************************************)
EXTENDS Integers, Sequences, FiniteSets, Bags

(***************************************************************************)
(* Bounds of the model.                                                    *)
(***************************************************************************)
MaxStreams == 2      \* camera streams getUserMedia hands out in one run
MaxPending == 2      \* startCamera calls awaiting the permission prompt
MaxReads == 2        \* FileReader reads in flight
MaxExtract == 2      \* /api/process-table requests in flight
MaxSaves == 1        \* /api/save-to-database requests in flight
MaxStops == 2        \* a stream's stop count saturates here
MaxCols == 2         \* cells of a table line (pure CSV specification)
MaxRows == 2         \* rows of a table (pure CSV specification)

(***************************************************************************)
(* JavaScript values.  null and undefined are tagged records, so that they *)
(* compare with every other value; a string is a sequence of tokens.       *)
(***************************************************************************)
Null == [tag |-> "null"]
Undefined == [tag |-> "undefined"]
Str(s) == [tag |-> "string", val |-> s]
MediaStream(id) == [tag |-> "MediaStream", id |-> id]

\* JavaScript truthiness of the values the component tests with ! and &&.
Truthy(v) == v # Null /\ v # Undefined /\ v # Str(<<>>)

CameraError == Str(<<"Unable to access camera. Please check permissions.">>)
ProcessError == Str(<<"Failed to process image. Please try again.">>)
SaveError == Str(<<"Failed to save to database. Please try again.">>)

VARIABLES
    capturedImage,   \* useState<string | null>: the data URL shown and sent
    isProcessing,    \* useState(false)
    extractedData,   \* useState<TableData | null>
    error,           \* useState<string | null>
    showCamera,      \* useState(false)
    videoRef,        \* useRef: the <video> element, or Null while unmounted
    srcObject,       \* videoRef.current.srcObject
    streamRef,       \* useRef<MediaStream | null>
    acquired,        \* number of streams getUserMedia has resolved with
    stops,           \* stops[id]: times the tracks of stream id were stopped
    camPending,      \* startCamera calls awaiting getUserMedia
    reads,           \* FileReader reads in flight (bag of files)
    extractReqs,     \* processImage calls in flight (sequence of records)
    saveReqs,        \* addToDatabase calls in flight (bag of request bodies)
    download,        \* content of the last CSV blob handed to the browser
    outcome,         \* the response this turn settled processImage with,
                     \* Null after any other turn
    direct           \* the processTableImage call (src/unnamed/part_000):
                     \* its position, what it sent and received, its result

vars == <<capturedImage, isProcessing, extractedData, error, showCamera,
          videoRef, srcObject, streamRef, acquired, stops, camPending,
          reads, extractReqs, saveReqs, download, outcome, direct>>

uiState == <<capturedImage, isProcessing, extractedData, error, showCamera>>
camera == <<videoRef, srcObject, streamRef, acquired, stops, camPending>>

\* status 0 stands for a network failure: there is no response.
Settled(status, failed) == [status |-> status, failed |-> failed]

RemoveAt(s, i) == SubSeq(s, 1, i - 1) \o SubSeq(s, i + 1, Len(s))

\* processTableImage has not been called: it is imported by nothing in App.
DirectIdle ==
    [pc |-> "idle", imageBase64 |-> Null, prompt |-> Null, sent |-> <<>>,
     keyFile |-> Null, response |-> Null, result |-> Null, logged |-> Null,
     thrown |-> Null, returned |-> Null]

(***************************************************************************)
(* The initial state: useState and useRef initial values (lines 54-63),    *)
(* after the first render.  The render mounts <video> only under           *)
(* showCamera (line 287), so videoRef.current starts as null.              *)
(***************************************************************************)
Init ==
    /\ capturedImage = Null
    /\ isProcessing = FALSE
    /\ extractedData = Null
    /\ error = Null
    /\ showCamera = FALSE
    /\ videoRef = Null
    /\ srcObject = Null
    /\ streamRef = Null
    /\ acquired = 0
    /\ stops = [id \in 1..MaxStreams |-> 0]
    /\ camPending = 0
    /\ reads = EmptyBag
    /\ extractReqs = <<>>
    /\ saveReqs = EmptyBag
    /\ download = Null
    /\ outcome = Null
    /\ direct = DirectIdle

(***************************************************************************)
(* Rendering (lines 201-504): which controls exist in the committed DOM.   *)
(***************************************************************************)
StartButtonsShown == ~Truthy(capturedImage) /\ ~showCamera      \* line 232
CameraViewShown == showCamera                                    \* line 287
ImagePanelShown == Truthy(capturedImage)                         \* line 344
\* The extract button without its disabled attribute.
ExtractEnabled_IgnoresProcessing == ImagePanelShown
ExtractEnabled == ImagePanelShown /\ ~isProcessing               \* line 368
TablePanelShown == Truthy(extractedData)                         \* line 404

\* React attaches the ref when <video> mounts and nulls it when it unmounts;
\* a fresh element has no srcObject.
RenderVideoRef(show) == IF show THEN Str("video") ELSE Null
RenderSrcObject(show, so) == IF show THEN so ELSE Null

(***************************************************************************)
(* Requests in flight.  A process-table request remembers, besides the     *)
(* image it carries and the await it is suspended at, the image and table  *)
(* on display when it was issued, and two facts about the time since:      *)
(* whether resetApp ran, and whether another handler reported an error.    *)
(***************************************************************************)
ExtractReq(image) ==
    [image |-> image, phase |-> "fetch", reset |-> FALSE, errSet |-> FALSE,
     issued |-> [capturedImage |-> capturedImage,
                 extractedData |-> extractedData]]

MarkReset(reqs) == [i \in DOMAIN reqs |-> [reqs[i] EXCEPT !.reset = TRUE]]
MarkError(reqs) == [i \in DOMAIN reqs |-> [reqs[i] EXCEPT !.errSet = TRUE]]

(***************************************************************************)
(* Camera streams.                                                         *)
(***************************************************************************)
Live(id) == id \in 1..acquired /\ stops[id] = 0

\* track.stop() on every track of the stream (line 82).
StopTracks(st, s) ==
    [st EXCEPT ![s.id] = IF @ < MaxStops THEN @ + 1 ELSE @]

\* stopCamera that stops the tracks but forgets to clear streamRef.
stopCamera_KeepsRef ==
    IF streamRef # Null
    THEN <<StopTracks(stops, streamRef), streamRef, FALSE>>
    ELSE <<stops, streamRef, FALSE>>

\* stopCamera (lines 80-86): the values of <<stops, streamRef, showCamera>>
\* it leaves.
stopCamera ==
    IF streamRef # Null
    THEN <<StopTracks(stops, streamRef), Null, FALSE>>
    ELSE <<stops, streamRef, FALSE>>

\* startCamera up to `await getUserMedia` (lines 65-69).
StartCamera ==
    /\ StartButtonsShown
    /\ camPending < MaxPending
    /\ camPending' = camPending + 1
    /\ outcome' = Null
    /\ direct' = direct
    /\ UNCHANGED <<uiState, videoRef, srcObject, streamRef, acquired, stops,
                   reads, extractReqs, saveReqs, download>>

\* getUserMedia resolved: lines 70-74.
CameraGranted ==
    /\ camPending > 0
    /\ acquired < MaxStreams
    /\ camPending' = camPending - 1
    /\ acquired' = acquired + 1
    /\ streamRef' = MediaStream(acquired + 1)
    /\ showCamera' = IF videoRef # Null THEN TRUE ELSE showCamera
    /\ videoRef' = RenderVideoRef(showCamera')
    /\ srcObject' = RenderSrcObject(showCamera',
                        IF videoRef # Null THEN streamRef' ELSE srcObject)
    /\ outcome' = Null
    /\ direct' = direct
    /\ UNCHANGED <<capturedImage, isProcessing, extractedData, error, stops,
                   reads, extractReqs, saveReqs, download>>

\* A catch block that also forgets the stream of an earlier call.
CameraDenied_DropsStream ==
    /\ camPending > 0
    /\ camPending' = camPending - 1
    /\ error' = CameraError
    /\ streamRef' = Null
    /\ extractReqs' = MarkError(extractReqs)
    /\ outcome' = Null
    /\ direct' = direct
    /\ UNCHANGED <<capturedImage, isProcessing, extractedData, showCamera,
                   videoRef, srcObject, acquired, stops, reads, saveReqs,
                   download>>

\* getUserMedia rejected: lines 75-77.
CameraDenied ==
    /\ camPending > 0
    /\ camPending' = camPending - 1
    /\ error' = CameraError
    /\ extractReqs' = MarkError(extractReqs)
    /\ outcome' = Null
    /\ direct' = direct
    /\ UNCHANGED <<capturedImage, isProcessing, extractedData, showCamera,
                   videoRef, srcObject, streamRef, acquired, stops,
                   reads, saveReqs, download>>

\* capturePhoto (lines 88-104).  canvasRef is always mounted (line 502) and
\* getContext('2d') succeeds; the frame is what the preview shows, encoded by
\* canvas.toDataURL('image/jpeg', 0.8).
FrameDataURL(s) ==
    Str(<<"data:", "image/", "jpeg", ";base64", ",", "frame", s.id>>)

CapturePhoto ==
    /\ CameraViewShown
    /\ IF videoRef # Null
       THEN /\ capturedImage' = FrameDataURL(srcObject)
            /\ stops' = stopCamera[1]
            /\ streamRef' = stopCamera[2]
            /\ showCamera' = stopCamera[3]
       ELSE UNCHANGED <<capturedImage, stops, streamRef, showCamera>>
    /\ videoRef' = RenderVideoRef(showCamera')
    /\ srcObject' = RenderSrcObject(showCamera', srcObject)
    /\ outcome' = Null
    /\ direct' = direct
    /\ UNCHANGED <<isProcessing, extractedData, error, acquired, camPending,
                   reads, extractReqs, saveReqs, download>>

\* The Cancel button of the camera view (line 323): stopCamera.
CancelCamera ==
    /\ CameraViewShown
    /\ stops' = stopCamera[1]
    /\ streamRef' = stopCamera[2]
    /\ showCamera' = stopCamera[3]
    /\ videoRef' = RenderVideoRef(showCamera')
    /\ srcObject' = RenderSrcObject(showCamera', srcObject)
    /\ outcome' = Null
    /\ direct' = direct
    /\ UNCHANGED <<capturedImage, isProcessing, extractedData, error,
                   acquired, camPending, reads, extractReqs, saveReqs,
                   download>>

\* resetApp (lines 194-199), the Start Over button (line 387).
ResetApp ==
    /\ ImagePanelShown
    /\ capturedImage' = Null
    /\ extractedData' = Null
    /\ error' = Null
    /\ stops' = stopCamera[1]
    /\ streamRef' = stopCamera[2]
    /\ showCamera' = stopCamera[3]
    /\ videoRef' = RenderVideoRef(showCamera')
    /\ srcObject' = RenderSrcObject(showCamera', srcObject)
    /\ extractReqs' = MarkReset(extractReqs)
    /\ outcome' = Null
    /\ direct' = direct
    /\ UNCHANGED <<isProcessing, acquired, camPending, reads, saveReqs,
                   download>>

(***************************************************************************)
(* Upload (lines 106-115).  A file is its MIME type and its bytes.         *)
(***************************************************************************)
Base64Alphabet ==
    <<"A","B","C","D","E","F","G","H","I","J","K","L","M","N","O","P",
      "Q","R","S","T","U","V","W","X","Y","Z","a","b","c","d","e","f",
      "g","h","i","j","k","l","m","n","o","p","q","r","s","t","u","v",
      "w","x","y","z","0","1","2","3","4","5","6","7","8","9","+","/">>

B64(n) == Base64Alphabet[n + 1]

RECURSIVE Base64(_)
Base64(b) ==
    IF Len(b) = 0 THEN <<>>
    ELSE IF Len(b) = 1
    THEN <<B64(b[1] \div 4), B64((b[1] % 4) * 16), "=", "=">>
    ELSE IF Len(b) = 2
    THEN <<B64(b[1] \div 4), B64((b[1] % 4) * 16 + b[2] \div 16),
           B64((b[2] % 16) * 4), "=">>
    ELSE <<B64(b[1] \div 4), B64((b[1] % 4) * 16 + b[2] \div 16),
           B64((b[2] % 16) * 4 + b[3] \div 64), B64(b[3] % 64)>>
         \o Base64(SubSeq(b, 4, Len(b)))

\* FileReader.readAsDataURL (line 113): the result handed to onload.
ReadAsDataURL(f) ==
    Str(<<"data:">> \o f.type \o <<";base64", ",">> \o Base64(f.bytes))

FileTypes ==
    { <<"image/", "png">>, <<"text/", "plain">>, <<"application/", "image/">>,
      <<>> }
FileContents == { <<>>, <<255, 0>> }
Files == [type : FileTypes, bytes : FileContents]
\* event.target.files?.[0]: a file, or undefined when none was chosen.
Selections == Files \cup {Undefined}

\* file.type.startsWith('image/') (line 108)
\* A type test that looks for "image/" anywhere in the type.
IsImageType_Includes(t) == \E i \in 1..Len(t) : t[i] = "image/"
IsImageType(t) == Len(t) > 0 /\ t[1] = "image/"
Accepted(f) == f # Undefined /\ IsImageType(f.type)

\* The change event of the file input, rendered with the start buttons
\* (lines 277-283); f is event.target.files?.[0].
HandleFileUpload(f) ==
    /\ StartButtonsShown
    /\ IF Accepted(f)
       THEN /\ BagCardinality(reads) < MaxReads
            /\ reads' = reads (+) SetToBag({f})
       ELSE reads' = reads
    /\ outcome' = Null
    /\ direct' = direct
    /\ UNCHANGED <<uiState, camera, extractReqs, saveReqs, download>>

\* reader.onload (lines 110-112)
FileLoaded(f) ==
    /\ BagIn(f, reads)
    /\ capturedImage' = ReadAsDataURL(f)
    /\ reads' = reads (-) SetToBag({f})
    /\ outcome' = Null
    /\ direct' = direct
    /\ UNCHANGED <<isProcessing, extractedData, error, showCamera, camera,
                   extractReqs, saveReqs, download>>

\* The read fails: no onerror handler is installed, nothing happens.
FileReadFailed(f) ==
    /\ BagIn(f, reads)
    /\ reads' = reads (-) SetToBag({f})
    /\ outcome' = Null
    /\ direct' = direct
    /\ UNCHANGED <<uiState, camera, extractReqs, saveReqs, download>>

(***************************************************************************)
(* Extraction (lines 117-151).                                             *)
(***************************************************************************)
\* String.prototype.split(sep) on a string of tokens: the pieces between
\* the occurrences of sep, at least one piece.
RECURSIVE Split(_, _)
Split(s, sep) ==
    IF \E i \in 1..Len(s) : s[i] = sep
    THEN LET i == CHOOSE k \in 1..Len(s) :
                      s[k] = sep /\ \A j \in 1..(k - 1) : s[j] # sep
         IN  <<SubSeq(s, 1, i - 1)>> \o Split(SubSeq(s, i + 1, Len(s)), sep)
    ELSE <<s>>

\* pieces[n] with JavaScript's 0-based index: undefined past the end.
At(pieces, n) ==
    IF n + 1 \in DOMAIN pieces THEN Str(pieces[n + 1]) ELSE Undefined

\* The split with the wrong index: the prefix instead of the payload.
Base64Data_TakesPrefix(image) == At(Split(image.val, ","), 0)

\* capturedImage.split(',')[1] (line 125)
Base64Data(image) == At(Split(image.val, ","), 1)

\* The tables the service answers with: the example of the specification
\* and one with an embedded comma and a short row.
TableA == [headers |-> <<"A", "B">>, rows |-> << <<"1", "2">>, <<"3", "4">> >>]
TableB == [headers |-> <<"Date", "Pit">>, rows |-> << <<"x,y">> >>]
Tables == {TableA, TableB}

\* Response bodies: a JSON object with or without tableData, JSON null, and
\* text that is not JSON.
JsonObject(t) == [kind |-> "object", tableData |-> t]
JsonNull == [kind |-> "null"]
NotJson == [kind |-> "unparsable"]
Bodies == {JsonObject(t) : t \in Tables \cup {Undefined}} \cup {JsonNull, NotJson}
Statuses == {200, 500}

\* response.ok
Ok(status) == status >= 200 /\ status <= 299

\* processImage without its setError(null).
ProcessImage_KeepsError ==
    /\ ExtractEnabled
    /\ Len(extractReqs) < MaxExtract
    /\ IF ~Truthy(capturedImage)
       THEN UNCHANGED <<isProcessing, error, extractReqs>>
       ELSE /\ isProcessing' = TRUE
            /\ error' = error
            /\ extractReqs' =
                   Append(extractReqs, ExtractReq(Base64Data(capturedImage)))
    /\ outcome' = Null
    /\ direct' = direct
    /\ UNCHANGED <<capturedImage, extractedData, showCamera, camera, reads,
                   saveReqs, download>>

\* The Extract Table Data button (line 367): processImage up to `await fetch`.
ProcessImage ==
    /\ ExtractEnabled
    /\ Len(extractReqs) < MaxExtract
    /\ IF ~Truthy(capturedImage)
       THEN UNCHANGED <<isProcessing, error, extractReqs>>
       ELSE /\ isProcessing' = TRUE
            /\ error' = Null
            /\ extractReqs' =
                   Append(extractReqs, ExtractReq(Base64Data(capturedImage)))
    /\ outcome' = Null
    /\ direct' = direct
    /\ UNCHANGED <<capturedImage, extractedData, showCamera, camera, reads,
                   saveReqs, download>>

\* A catch block that also drops the table on display.
ProcessFailed_ClearsTable(i, status) ==
    /\ error' = ProcessError
    /\ extractedData' = Null
    /\ isProcessing' = FALSE
    /\ extractReqs' = RemoveAt(extractReqs, i)
    /\ outcome' = Settled(status, TRUE)
    /\ direct' = direct
    /\ UNCHANGED <<capturedImage, showCamera, camera, reads, saveReqs,
                   download>>

\* A catch block that sends the user back to the start screen.
ProcessFailed_ClearsImage(i, status) ==
    /\ error' = ProcessError
    /\ capturedImage' = Null
    /\ isProcessing' = FALSE
    /\ extractReqs' = RemoveAt(extractReqs, i)
    /\ outcome' = Settled(status, TRUE)
    /\ direct' = direct
    /\ UNCHANGED <<extractedData, showCamera, camera, reads, saveReqs,
                   download>>

\* A failure path without the finally block.
ProcessFailed_KeepsProcessing(i, status) ==
    /\ error' = ProcessError
    /\ extractReqs' = RemoveAt(extractReqs, i)
    /\ outcome' = Settled(status, TRUE)
    /\ direct' = direct
    /\ UNCHANGED <<capturedImage, isProcessing, extractedData, showCamera,
                   camera, reads, saveReqs, download>>

\* catch and finally (lines 145-150) for request i, whose response had
\* this status.
ProcessFailed(i, status) ==
    /\ error' = ProcessError
    /\ isProcessing' = FALSE
    /\ extractReqs' = RemoveAt(extractReqs, i)
    /\ outcome' = Settled(status, TRUE)
    /\ direct' = direct
    /\ UNCHANGED <<capturedImage, extractedData, showCamera, camera, reads,
                   saveReqs, download>>

\* fetch resolved with a response (lines 138-142).
ProcessResponse(i, status) ==
    /\ i \in DOMAIN extractReqs
    /\ extractReqs[i].phase = "fetch"
    /\ IF ~Ok(status)
       THEN ProcessFailed(i, status)
       ELSE /\ extractReqs' = [extractReqs EXCEPT ![i].phase = "json"]
            /\ outcome' = Null
            /\ direct' = direct
            /\ UNCHANGED <<uiState, camera, reads, saveReqs, download>>

\* fetch, or the read of the body, rejected: a network failure.
ProcessNetworkError(i) ==
    /\ i \in DOMAIN extractReqs
    /\ ProcessFailed(i, 0)

\* response.json() settled (lines 142-143, 148-150).
ProcessBody(i, body) ==
    /\ i \in DOMAIN extractReqs
    /\ extractReqs[i].phase = "json"
    /\ IF body.kind # "object"
       THEN ProcessFailed(i, 200)
       ELSE /\ extractedData' = body.tableData
            /\ isProcessing' = FALSE
            /\ extractReqs' = RemoveAt(extractReqs, i)
            /\ outcome' = Settled(200, FALSE)
            /\ direct' = direct
            /\ UNCHANGED <<capturedImage, error, showCamera, camera, reads,
                           saveReqs, download>>

(***************************************************************************)
(* CSV export (lines 153-170).                                             *)
(***************************************************************************)
\* Array.prototype.join on an array of strings.
RECURSIVE Join(_, _)
Join(a, sep) ==
    IF Len(a) = 0 THEN <<>>
    ELSE IF Len(a) = 1 THEN a[1]
    ELSE a[1] \o <<sep>> \o Join(Tail(a), sep)

\* A cell is a one-token string.
Cells(row) == [j \in DOMAIN row |-> <<row[j]>>]

\* A serialisation that terminates every line instead of separating them.
CsvContent_TerminatesLines(t) ==
    Join(<<Join(Cells(t.headers), ",")>>
           \o [k \in DOMAIN t.rows |-> Join(Cells(t.rows[k]), ",")],
         "\n") \o <<"\n">>

\* csvContent (lines 156-159)
CsvContent(t) ==
    Join(<<Join(Cells(t.headers), ",")>>
           \o [k \in DOMAIN t.rows |-> Join(Cells(t.rows[k]), ",")],
         "\n")

\* The Download CSV button (line 462).
DownloadCSV ==
    /\ TablePanelShown
    /\ download' = IF ~Truthy(extractedData) THEN download
                   ELSE Str(CsvContent(extractedData))
    /\ outcome' = Null
    /\ direct' = direct
    /\ UNCHANGED <<uiState, camera, reads, extractReqs, saveReqs>>

(***************************************************************************)
(* Save (lines 172-192).                                                   *)
(***************************************************************************)
\* The Add to Database button (line 481): addToDatabase up to `await fetch`.
AddToDatabase ==
    /\ TablePanelShown
    /\ BagCardinality(saveReqs) < MaxSaves
    /\ saveReqs' = IF ~Truthy(extractedData) THEN saveReqs
                   ELSE saveReqs (+) SetToBag({extractedData})
    /\ outcome' = Null
    /\ direct' = direct
    /\ UNCHANGED <<uiState, camera, reads, extractReqs, download>>

\* fetch resolved with response.ok: the alert (lines 184-185).
SaveOk(body) ==
    /\ BagIn(body, saveReqs)
    /\ saveReqs' = saveReqs (-) SetToBag({body})
    /\ outcome' = Null
    /\ direct' = direct
    /\ UNCHANGED <<uiState, camera, reads, extractReqs, download>>

\* A catch block that sends the request again.
SaveFailed_Retries(body) ==
    /\ BagIn(body, saveReqs)
    /\ error' = SaveError
    /\ saveReqs' = saveReqs
    /\ extractReqs' = MarkError(extractReqs)
    /\ outcome' = Null
    /\ direct' = direct
    /\ UNCHANGED <<capturedImage, isProcessing, extractedData, showCamera,
                   camera, reads, download>>

\* fetch resolved with a non-ok response, or rejected (lines 186-191).
SaveFailed(body) ==
    /\ BagIn(body, saveReqs)
    /\ error' = SaveError
    /\ saveReqs' = saveReqs (-) SetToBag({body})
    /\ extractReqs' = MarkError(extractReqs)
    /\ outcome' = Null
    /\ direct' = direct
    /\ UNCHANGED <<capturedImage, isProcessing, extractedData, showCamera,
                   camera, reads, download>>

Next ==
    \/ StartCamera
    \/ CameraGranted
    \/ CameraDenied
    \/ ResetApp
    \/ \E f \in Selections : HandleFileUpload(f)
    \/ \E f \in Files : FileLoaded(f)
    \/ \E f \in Files : FileReadFailed(f)
    \/ ProcessImage
    \/ \E i \in 1..MaxExtract, status \in Statuses : ProcessResponse(i, status)
    \/ \E i \in 1..MaxExtract : ProcessNetworkError(i)
    \/ \E i \in 1..MaxExtract, body \in Bodies : ProcessBody(i, body)
    \/ DownloadCSV
    \/ AddToDatabase
    \/ \E body \in Tables : SaveOk(body)
    \/ \E body \in Tables : SaveFailed(body)

Spec == Init /\ [][Next]_vars

(***************************************************************************)
(* The CSV serialisation as a pure function: the component right after a   *)
(* successful extraction of an arbitrary bounded table, with the two       *)
(* controls that read or clear the table.                                  *)
(***************************************************************************)
\* Cells that are themselves a comma or a newline; the tables of Tables
\* bring the ordinary cells.
CsvCells == {",", "\n"}
CsvLines == UNION {[1..n -> CsvCells] : n \in 0..MaxCols}
CsvTables ==
    Tables \cup
    [headers : CsvLines, rows : UNION {[1..n -> CsvLines] : n \in 0..MaxRows}]

PngFile == [type |-> <<"image/", "png">>, bytes |-> <<255, 0>>]

InitCSV ==
    /\ extractedData \in CsvTables
    /\ outcome = Settled(200, FALSE)
    /\ capturedImage = ReadAsDataURL(PngFile)
    /\ isProcessing = FALSE
    /\ error = Null
    /\ showCamera = FALSE
    /\ videoRef = Null
    /\ srcObject = Null
    /\ streamRef = Null
    /\ acquired = 0
    /\ stops = [id \in 1..MaxStreams |-> 0]
    /\ camPending = 0
    /\ reads = EmptyBag
    /\ extractReqs = <<>>
    /\ saveReqs = EmptyBag
    /\ download = Null
    /\ direct = DirectIdle

NextCSV ==
    \/ DownloadCSV
    \/ ResetApp

SpecCSV == InitCSV /\ [][NextCSV]_vars

(***************************************************************************)
(* src/unnamed/part_000: processTableImage, the direct client path.        *)
(* Texts are sequences of tokens.                                          *)
(***************************************************************************)
MaxKeyLen == 3
MaxTextLen == 3

\* The key file: the name and "=" as one token, an ordinary character, a
\* blank and a line terminator.
KeyName == "GEMINI_API_KEY="
KeyTokens == {KeyName, "k", " ", "\n"}
KeyFiles == UNION {[1..n -> KeyTokens] : n \in 0..MaxKeyLen}

\* (.+) at position i: the longest run of characters up to the next line
\* terminator.
RECURSIVE LineEnd(_, _)
LineEnd(s, i) ==
    IF i + 1 > Len(s) \/ s[i + 1] = "\n" THEN i ELSE LineEnd(s, i + 1)

\* String.prototype.trim on the capture.
RECURSIVE TrimStart(_)
TrimStart(s) ==
    IF s # <<>> /\ Head(s) = " " THEN TrimStart(Tail(s)) ELSE s

RECURSIVE TrimEnd(_)
TrimEnd(s) ==
    IF s # <<>> /\ s[Len(s)] = " "
    THEN TrimEnd(SubSeq(s, 1, Len(s) - 1))
    ELSE s

Trim(s) == TrimEnd(TrimStart(s))

\* A pattern whose value may be empty: /GEMINI_API_KEY=(.*)/.
KeyMatch_AllowsEmpty(s) ==
    LET starts == {i \in 1..Len(s) : s[i] = KeyName}
    IN  IF starts = {} THEN Null
        ELSE LET i == CHOOSE i \in starts : \A j \in starts : i <= j
             IN  [capture |-> SubSeq(s, i + 1, LineEnd(s, i))]

\* apiKeyContent.match(/GEMINI_API_KEY=(.+)/) (line 9): the leftmost
\* occurrence of the name that at least one character other than a line
\* terminator follows, with the rest of its line as capture; Null when
\* there is none.
KeyMatch(s) ==
    LET starts == {i \in 1..Len(s) :
                      s[i] = KeyName /\ i < Len(s) /\ s[i + 1] # "\n"}
    IN  IF starts = {} THEN Null
        ELSE LET i == CHOOSE i \in starts : \A j \in starts : i <= j
             IN  [capture |-> SubSeq(s, i + 1, LineEnd(s, i + 1))]

\* JSON values and JSON.parse (line 46) on the token alphabet of arrays
\* of the number 1.
JsonNumber == [kind |-> "number"]
JsonArray(items) == [kind |-> "array", items |-> items]
JsonTokens == {"1", "[", "]", ","}
Texts == UNION {[1..n -> JsonTokens] : n \in 0..MaxTextLen}

SyntaxError(s) == [ok |-> FALSE, rest |-> s]

RECURSIVE ParseValue(_)
RECURSIVE ParseElements(_, _)
\* One value at the head of s: the value and the text after it.
ParseValue(s) ==
    IF s = <<>> THEN SyntaxError(s)
    ELSE IF Head(s) = "1"
         THEN [ok |-> TRUE, value |-> JsonNumber, rest |-> Tail(s)]
    ELSE IF Head(s) = "["
         THEN IF Len(s) > 1 /\ s[2] = "]"
              THEN [ok |-> TRUE, value |-> JsonArray(<<>>),
                    rest |-> SubSeq(s, 3, Len(s))]
              ELSE ParseElements(Tail(s), <<>>)
    ELSE SyntaxError(s)

\* The elements of an array after "[" or ",", up to its "]".
ParseElements(s, items) ==
    LET v == ParseValue(s) IN
    IF ~v.ok THEN SyntaxError(s)
    ELSE IF v.rest = <<>> THEN SyntaxError(s)
    ELSE IF Head(v.rest) = "]"
         THEN [ok |-> TRUE, value |-> JsonArray(Append(items, v.value)),
               rest |-> Tail(v.rest)]
    ELSE IF Head(v.rest) = ","
         THEN ParseElements(Tail(v.rest), Append(items, v.value))
    ELSE SyntaxError(s)

\* JSON.parse(text): the whole text is one value, or a SyntaxError.
JsonParse(text) ==
    LET v == ParseValue(text) IN
    IF v.ok /\ v.rest = <<>> THEN [ok |-> TRUE, value |-> v.value]
    ELSE [ok |-> FALSE]

\* The arguments of the call, and what the two servers can answer.
Images == {Str(<<"A">>), Str(<<"A", "=">>)}
Prompts == {<<"p">>}
KeyFileUrl == "/.api_key"
GeminiUrl == "generateContent?key="

\* What geminiResponse.json() resolves with: a result without candidates,
\* or a result whose first candidate has this text.
NoCandidates == [kind |-> "object", candidates |-> <<>>]
Candidate(text) == [kind |-> "object", candidates |-> <<text>>]
Results == {NoCandidates} \cup {Candidate(t) : t \in Texts}

\* The errors the function can throw.
Error(message) == [message |-> message]
KeyNotFound == Error("Gemini API key not found in .api_key file")
GeminiFailed == Error("Failed to process image with Gemini API")
FetchRejected == Error("TypeError: Failed to fetch")
BodyRejected == Error("SyntaxError: body is not JSON")
NoCandidate == Error("TypeError: cannot read properties of undefined")
ParseFailed == Error("SyntaxError: text is not JSON")

\* catch (lines 49-52): log the error and throw it again.
Rethrow(d, e) ==
    direct' = [d EXCEPT !.pc = "thrown", !.logged = e, !.thrown = e]

\* A call with these arguments: line 7 sends the key file request.
DirectCall(imageBase64, prompt) ==
    /\ direct.pc \in {"idle", "returned", "thrown"}
    /\ direct' = [DirectIdle EXCEPT !.pc = "key",
                                     !.imageBase64 = imageBase64,
                                     !.prompt = Str(prompt),
                                     !.sent = <<[url |-> KeyFileUrl]>>]
    /\ UNCHANGED <<uiState, camera, reads, extractReqs, saveReqs, download,
                   outcome>>

\* fetch('/.api_key') or response.text() rejected (lines 7-8).
KeyFetchFailed ==
    /\ direct.pc = "key"
    /\ Rethrow(direct, FetchRejected)
    /\ UNCHANGED <<uiState, camera, reads, extractReqs, saveReqs, download,
                   outcome>>

\* The key file arrived with this text, whatever the status of its
\* response (lines 8-36): without a match throw, with one send the
\* completion request.
KeyFetched(apiKeyContent) ==
    /\ direct.pc = "key"
    /\ LET apiKeyMatch == KeyMatch(apiKeyContent) IN
       IF apiKeyMatch = Null
       THEN Rethrow([direct EXCEPT !.keyFile = Str(apiKeyContent)],
                    KeyNotFound)
       ELSE direct' = [direct EXCEPT
                !.keyFile = Str(apiKeyContent),
                !.pc = "completion",
                !.sent = Append(@, [url |-> GeminiUrl,
                                    apiKey |-> Trim(apiKeyMatch.capture),
                                    text |-> direct.prompt,
                                    data |-> direct.imageBase64])]
    /\ UNCHANGED <<uiState, camera, reads, extractReqs, saveReqs, download,
                   outcome>>

\* The completion fetch, or geminiResponse.json(), rejected (lines 18, 42).
CompletionFailed ==
    /\ direct.pc \in {"completion", "json"}
    /\ Rethrow(direct, IF direct.pc = "completion" THEN FetchRejected
                       ELSE BodyRejected)
    /\ UNCHANGED <<uiState, camera, reads, extractReqs, saveReqs, download,
                   outcome>>

\* The completion response arrived with this status (lines 38-42).
CompletionResponse(status) ==
    /\ direct.pc = "completion"
    /\ IF ~Ok(status)
       THEN Rethrow([direct EXCEPT !.response = [status |-> status]],
                    GeminiFailed)
       ELSE direct' = [direct EXCEPT !.response = [status |-> status],
                                     !.pc = "json"]
    /\ UNCHANGED <<uiState, camera, reads, extractReqs, saveReqs, download,
                   outcome>>

\* geminiResponse.json() resolved with this result (lines 42-48).
CompletionResult(result) ==
    /\ direct.pc = "json"
    /\ LET d == [direct EXCEPT !.result = result] IN
       IF result.candidates = <<>>
       THEN Rethrow(d, NoCandidate)
       ELSE LET content == result.candidates[1]
                tableData == JsonParse(content)
            IN  IF ~tableData.ok
                THEN Rethrow(d, ParseFailed)
                ELSE direct' = [d EXCEPT
                         !.pc = "returned",
                         !.returned = [tableData |-> tableData.value]]
    /\ UNCHANGED <<uiState, camera, reads, extractReqs, saveReqs, download,
                   outcome>>

NextDirect ==
    \/ \E imageBase64 \in Images, prompt \in Prompts :
           DirectCall(imageBase64, prompt)
    \/ KeyFetchFailed
    \/ \E apiKeyContent \in KeyFiles : KeyFetched(apiKeyContent)
    \/ CompletionFailed
    \/ \E status \in Statuses : CompletionResponse(status)
    \/ \E result \in Results : CompletionResult(result)

SpecDirect == Init /\ [][NextDirect]_vars

(***************************************************************************)
(* Properties.                                                             *)
(***************************************************************************)

\* The camera view is never shown: the <video> element is rendered only
\* under showCamera, and showCamera is set only when the element exists.
\* CapturePhoto and CancelCamera are therefore never enabled, and they are
\* not disjuncts of Next.
CameraViewNeverShown == ~showCamera /\ videoRef = Null

\* C1: every camera stream startCamera acquired has its tracks stopped
\* exactly once: none is stopped twice, and none stays live unless the app
\* still holds it in streamRef for a later stop.
C1_StreamsStoppedExactlyOnce ==
    \A id \in 1..acquired :
        /\ stops[id] <= 1
        /\ stops[id] = 0 => streamRef = MediaStream(id)

\* C2: whenever the camera view is not shown and no startCamera call awaits
\* permission, no acquired camera stream is live.
C2_NoLiveStreamOutsideCameraView ==
    (~showCamera /\ camPending = 0) => \A id \in 1..acquired : ~Live(id)

\* C3: a resetApp turn, whatever is in flight, ends with capturedImage,
\* extractedData and error null, showCamera false, streamRef cleared, and
\* the stream streamRef held stopped by this turn.
C3_ResetClearsEverything ==
    [][ResetApp =>
          /\ capturedImage' = Null
          /\ extractedData' = Null
          /\ error' = Null
          /\ ~showCamera'
          /\ streamRef' = Null
          /\ streamRef # Null =>
                 /\ stops[streamRef.id] = 0
                 /\ stops'[streamRef.id] = 1]_vars

\* C3 witness: a reset has run while an extraction was in flight and has
\* stopped the stream the app held (only resetApp stops a stream here).
C3_Witness ==
    /\ Len(extractReqs) = 1
    /\ extractReqs[1].reset
    /\ acquired = 1
    /\ stops[1] = 1
    /\ streamRef = Null
    /\ capturedImage = Null
    /\ extractedData = Null
    /\ error = Null

\* C4 as stated: the turn that handles an HTTP 500 response to
\* processImage's request ends with extractedData unset (null, or the
\* undefined of a body without tableData) and error a non-empty message.
C4_Original ==
    (outcome # Null /\ outcome.status = 500) =>
        ~Truthy(extractedData) /\ Truthy(error)

\* C4 amended: the turn that handles an HTTP 500 response leaves
\* extractedData as it was before the response and sets error to a
\* non-empty message.
C4_FailureKeepsTable ==
    [][\A i \in 1..MaxExtract :
          ProcessResponse(i, 500) =>
              /\ extractedData' = extractedData
              /\ error' # Null
              /\ Truthy(error')]_vars

\* C4 witness: a 500 has just been handled while a table extracted earlier
\* was shown.
C4_Witness ==
    /\ outcome # Null
    /\ outcome.status = 500
    /\ extractedData \in Tables
    /\ error = ProcessError

\* C5 as stated: the turn that handles a successful response with body
\* {tableData: T} ends with extractedData = T and error null, whatever
\* completed while the request was in flight.
C5_Original ==
    [][\A i \in 1..MaxExtract, t \in Tables :
          ProcessBody(i, JsonObject(t)) =>
              extractedData' = t /\ error' = Null]_vars

\* C5 amended: the turn that handles a successful response with body
\* {tableData: T} ends with extractedData = T, and with error null unless
\* another handler reported an error while the request was in flight.
C5_SuccessSetsTable ==
    [][\A i \in 1..MaxExtract, t \in Tables :
          ProcessBody(i, JsonObject(t)) =>
              /\ extractedData' = t
              /\ ~extractReqs[i].errSet => error' = Null]_vars

\* C5 witness: a success has just been handled, the table is shown and no
\* error is.
C5_Witness ==
    /\ outcome = Settled(200, FALSE)
    /\ extractedData = TableA
    /\ error = Null
    /\ capturedImage # Null

\* C6: at most one extraction request is in flight, isProcessing is true
\* while one is, and the extract control is not enabled while isProcessing.
C6_AtMostOneExtraction ==
    /\ Len(extractReqs) <= 1
    /\ extractReqs # <<>> => isProcessing
    /\ isProcessing => ~ENABLED ProcessImage

\* C6 witness: a request is still outstanding after a reset and a new
\* upload, so the extract control is rendered again, disabled.
C6_Witness ==
    /\ Len(extractReqs) = 1
    /\ extractReqs[1].reset
    /\ ImagePanelShown
    /\ isProcessing

\* C7: the turn that handles the response of an extraction request issued
\* before a resetApp changes none of capturedImage, extractedData and error.
C7_ResultDiscardedAfterReset ==
    [][\A i \in DOMAIN extractReqs :
          (/\ extractReqs[i].reset
           /\ \/ ProcessNetworkError(i)
              \/ \E status \in Statuses : ProcessResponse(i, status)
              \/ \E body \in Bodies : ProcessBody(i, body))
          => UNCHANGED <<capturedImage, extractedData, error>>]_vars

CsvLinesOf(t) == <<t.headers>> \o t.rows
CsvLineLen(l) == IF Len(l) = 0 THEN 0 ELSE 2 * Len(l) - 1
RECURSIVE CsvLineStart(_, _)
CsvLineStart(ls, k) ==
    IF k = 1 THEN 0
    ELSE CsvLineStart(ls, k - 1) + CsvLineLen(ls[k - 1]) + 1
IsCsvOf(out, t) ==
    LET ls == CsvLinesOf(t)
        n == Len(ls)
    IN  /\ Len(out) = CsvLineStart(ls, n) + CsvLineLen(ls[n])
        /\ \A k \in 1..n :
              /\ \A j \in 1..Len(ls[k]) :
                    out[CsvLineStart(ls, k) + 2 * j - 1] = ls[k][j]
              /\ \A j \in 1..(Len(ls[k]) - 1) :
                    out[CsvLineStart(ls, k) + 2 * j] = ","
        /\ \A k \in 1..(n - 1) :
              out[CsvLineStart(ls, k) + CsvLineLen(ls[k]) + 1] = "\n"

CsvOfTableA == Str(<<"A", ",", "B", "\n", "1", ",", "2", "\n", "3", ",", "4">>)

\* C9: the text downloadCSV produces is the header cells and then each
\* row's cells, unchanged, with a comma between the cells of a line and one
\* newline between lines, none after the last; for the table
\* {headers:[A,B], rows:[[1,2],[3,4]]} it is 'A,B\n1,2\n3,4'; the download
\* happens only when there is a table, and it changes no application state.
C9_CsvContent ==
    [][DownloadCSV =>
          /\ Truthy(extractedData)
          /\ download' # Null
          /\ IsCsvOf(download'.val, extractedData)
          /\ extractedData = TableA => download' = CsvOfTableA
          /\ UNCHANGED <<uiState, camera, reads, extractReqs, saveReqs>>]_vars
    /\ [][download' # download => DownloadCSV]_vars

\* C9 witness: the example table was downloaded.
C9_Witness ==
    /\ extractedData = TableA
    /\ download = CsvOfTableA

\* C10: the turn in which startCamera's getUserMedia call is granted
\* attaches the stream to the preview and shows the camera view, where
\* capturePhoto can be triggered.
C10_GrantShowsCameraView ==
    [][CameraGranted =>
          /\ showCamera'
          /\ videoRef' # Null
          /\ srcObject' = streamRef']_vars

\* The turn that handles a failed extraction request i: a response with a
\* non-success status, or a network failure.
ExtractionFails(i) ==
    \/ ProcessNetworkError(i)
    \/ \E status \in Statuses : ~Ok(status) /\ ProcessResponse(i, status)

\* C11 as stated: the turn that handles a non-success status or a network
\* failure sets error to a non-empty message and isProcessing to false, and
\* ends with capturedImage and extractedData as they were when the request
\* was issued.
C11_Original ==
    [][\A i \in DOMAIN extractReqs :
          ExtractionFails(i) =>
              /\ Truthy(error')
              /\ ~isProcessing'
              /\ capturedImage' = extractReqs[i].issued.capturedImage
              /\ extractedData' = extractReqs[i].issued.extractedData]_vars

\* C11 amended: that turn sets error to the generic non-empty message and
\* isProcessing to false and does not touch capturedImage and extractedData;
\* extractedData is the one of the time of issue unless resetApp ran since.
C11_FailureLeavesState ==
    [][\A i \in DOMAIN extractReqs :
          ExtractionFails(i) =>
              /\ error' = ProcessError
              /\ Truthy(error')
              /\ ~isProcessing'
              /\ UNCHANGED <<capturedImage, extractedData>>
              /\ ~extractReqs[i].reset =>
                     extractedData' = extractReqs[i].issued.extractedData]_vars

\* C11 witness: a network failure has just been handled and the table
\* extracted before it is still displayed with its image.
C11_Witness ==
    /\ outcome = Settled(0, TRUE)
    /\ extractedData = TableB
    /\ Truthy(capturedImage)
    /\ error = ProcessError
    /\ ~isProcessing

\* A 2xx body that is not of the shape {tableData: TableData}: not JSON,
\* JSON null, or an object without the tableData field.
Malformed(body) == body.kind # "object" \/ body.tableData \notin Tables

\* C12: the turn that handles a 2xx response with a malformed body ends
\* with an error shown to the user.
C12_MalformedResponseShowsError ==
    [][\A i \in DOMAIN extractReqs, body \in Bodies :
          (Malformed(body) /\ ProcessBody(i, body)) => Truthy(error')]_vars

\* C13 as stated: the turn in which getUserMedia is denied sets error to a
\* non-empty message, leaves showCamera, capturedImage, extractedData and
\* streamRef unchanged, and ends with no stream held.
C13_Original ==
    [][CameraDenied =>
          /\ Truthy(error')
          /\ UNCHANGED <<showCamera, capturedImage, extractedData, streamRef>>
          /\ streamRef' = Null]_vars

\* C13 amended: that turn sets error to a non-empty message, leaves
\* showCamera, capturedImage, extractedData and streamRef unchanged, and
\* acquires no stream: the streams and their state are as before.
C13_DenialChangesOnlyError ==
    [][CameraDenied =>
          /\ error' = CameraError
          /\ Truthy(error')
          /\ UNCHANGED <<showCamera, capturedImage, extractedData, streamRef,
                         acquired, stops>>]_vars

\* C13 witness: a denial has been reported on the start screen while the
\* stream of an earlier, granted call is held.
C13_Witness ==
    /\ error = CameraError
    /\ StartButtonsShown
    /\ streamRef = MediaStream(1)
    /\ Live(1)
    /\ camPending = 0

\* The program state other than the file reads in progress.
exceptReads ==
    <<capturedImage, isProcessing, extractedData, error, showCamera, videoRef,
      srcObject, streamRef, acquired, stops, camPending, extractReqs,
      saveReqs, download>>

\* No file was chosen, or the chosen file's type does not begin with
\* "image/".
NotAnImage(f) ==
    \/ f = Undefined
    \/ f.type = <<>>
    \/ Head(f.type) # "image/"

\* C14: handleFileUpload with no file or with a file that is not an image
\* changes nothing and starts no read; with an image file it starts one read
\* of that file and changes nothing else, and when the read completes only
\* capturedImage changes and becomes the file's data URL.
C14_UploadChangesOnlyImage ==
    [][\A f \in Selections :
          /\ HandleFileUpload(f) =>
                /\ UNCHANGED exceptReads
                /\ reads' = IF NotAnImage(f) THEN reads
                            ELSE reads (+) SetToBag({f})
          /\ (f # Undefined /\ FileLoaded(f)) =>
                /\ ~NotAnImage(f)
                /\ capturedImage' = ReadAsDataURL(f)
                /\ reads' = reads (-) SetToBag({f})
                /\ UNCHANGED <<isProcessing, extractedData, error, showCamera,
                               camera, extractReqs, saveReqs, download>>]_vars

\* C14 witness: the read of an uploaded image has completed and nothing else
\* has happened: the image is the file's data URL and the rest of the state
\* is as constructed.
C14_Witness ==
    /\ capturedImage = ReadAsDataURL(PngFile)
    /\ error = Null
    /\ extractedData = Null
    /\ ~isProcessing
    /\ ~showCamera
    /\ reads = EmptyBag
    /\ extractReqs = <<>>
    /\ acquired = 0

\* The number of save requests in flight.
SavesInFlight(b) == BagCardinality(b)

\* C15: a save request is issued only by an addToDatabase invocation, one
\* per invocation, with the current extractedData (a table) as its body, and
\* the invocation changes nothing else; a failed save sets error to a
\* non-empty message, leaves capturedImage and extractedData unchanged and
\* is not sent again; a successful save changes no state.
C15_SaveSendsTableOnce ==
    [][/\ AddToDatabase =>
             /\ saveReqs' = IF Truthy(extractedData)
                            THEN saveReqs (+) SetToBag({extractedData})
                            ELSE saveReqs
             /\ UNCHANGED <<uiState, camera, reads, extractReqs, download>>
       /\ SavesInFlight(saveReqs') > SavesInFlight(saveReqs) =>
             /\ extractedData \in Tables
             /\ saveReqs' = saveReqs (+) SetToBag({extractedData})
             /\ UNCHANGED uiState
       /\ \A body \in Tables :
             /\ SaveFailed(body) =>
                   /\ error' = SaveError
                   /\ Truthy(error')
                   /\ UNCHANGED <<capturedImage, extractedData, isProcessing,
                                  showCamera>>
                   /\ SavesInFlight(saveReqs') = SavesInFlight(saveReqs) - 1
             /\ SaveOk(body) =>
                   /\ UNCHANGED <<uiState, camera, reads, extractReqs,
                                  download>>
                   /\ SavesInFlight(saveReqs') = SavesInFlight(saveReqs) - 1
      ]_vars

\* C15 witness: a save of the table on screen has failed: its error is
\* shown, the image and the table are still there and no save is in flight.
C15_Witness ==
    /\ error = SaveError
    /\ extractedData = TableA
    /\ Truthy(capturedImage)
    /\ saveReqs = EmptyBag

(***************************************************************************)
(* Liveness of processImage.  Each await of a request in flight (the fetch *)
(* of lines 125-136, response.json() of line 142) eventually settles, one  *)
(* way or the other; nothing is assumed about what the user does.          *)
(***************************************************************************)
Settles ==
    \E i \in 1..MaxExtract :
        \/ ProcessNetworkError(i)
        \/ \E status \in Statuses : ProcessResponse(i, status)
        \/ \E body \in Bodies : ProcessBody(i, body)

SpecLive == Spec /\ WF_vars(Settles)

HasKeyLine(file) ==
    \E i \in 1..(Len(file) - 1) : file[i] = KeyName /\ file[i + 1] # "\n"

\* The JSON values short enough to matter, and the text of each.
JsonArraysOf(values) ==
    {JsonArray(items) : items \in UNION {[1..n -> values] : n \in 0..2}}
JsonValues ==
    {JsonNumber} \cup JsonArraysOf({JsonNumber} \cup JsonArraysOf({JsonNumber}))

RECURSIVE Stringify(_)
RECURSIVE StringifyItems(_)
Stringify(v) ==
    IF v.kind = "number" THEN <<"1">>
    ELSE <<"[">> \o StringifyItems(v.items) \o <<"]">>
StringifyItems(items) ==
    IF items = <<>> THEN <<>>
    ELSE IF Len(items) = 1 THEN Stringify(items[1])
    ELSE Stringify(items[1]) \o <<",">> \o StringifyItems(Tail(items))

IsJsonText(text) == \E v \in JsonValues : Stringify(v) = text

\* The completion request of the call, if it was sent.
CompletionSent == Len(direct.sent) = 2 /\ direct.sent[2].url = GeminiUrl

\* C17: processTableImage requests the key file first; it sends the
\* completion request only if the key file has a GEMINI_API_KEY=<value>
\* line, and otherwise throws without sending it; it throws when the
\* completion response is not ok or its text is not JSON; it returns
\* {tableData}, the parsed text, only when key lookup, completion request
\* and parse all succeeded; whatever fails is thrown to the caller.
C17_DirectPath ==
    /\ direct.pc # "idle" => direct.sent[1] = [url |-> KeyFileUrl]
    /\ Len(direct.sent) <= 2
    /\ Len(direct.sent) = 2 =>
          /\ CompletionSent
          /\ direct.keyFile # Null
          /\ HasKeyLine(direct.keyFile.val)
          /\ direct.sent[2].data = direct.imageBase64
          /\ direct.sent[2].text = direct.prompt
    /\ (direct.keyFile # Null /\ ~HasKeyLine(direct.keyFile.val)) =>
          /\ direct.pc = "thrown"
          /\ direct.thrown = KeyNotFound
          /\ ~CompletionSent
    /\ (direct.response # Null /\ ~Ok(direct.response.status)) =>
          direct.pc = "thrown" /\ direct.thrown = GeminiFailed
    /\ direct.result # Null =>
          IF /\ direct.result.candidates # <<>>
             /\ IsJsonText(direct.result.candidates[1])
          THEN direct.pc = "returned"
          ELSE direct.pc = "thrown"
    /\ direct.pc = "returned" =>
          /\ CompletionSent
          /\ HasKeyLine(direct.keyFile.val)
          /\ Ok(direct.response.status)
          /\ direct.returned # Null
          /\ Stringify(direct.returned.tableData) = direct.result.candidates[1]
          /\ direct.thrown = Null
    /\ direct.pc = "thrown" =>
          /\ direct.thrown # Null
          /\ direct.thrown = direct.logged
          /\ direct.returned = Null
    /\ direct.pc \in {"idle", "key", "completion", "json"} =>
          direct.thrown = Null /\ direct.returned = Null

\* C17 witness: a call has returned the table parsed from the text of the
\* completion, requested with the key of the second line of the key file.
C17_Witness ==
    /\ direct.pc = "returned"
    /\ direct.keyFile = Str(<<"\n", KeyName, "k">>)
    /\ direct.sent[2].apiKey = <<"k">>
    /\ direct.returned = [tableData |-> JsonArray(<<JsonNumber>>)]
====
